---- MODULE Spec2Model ----
(***************************************************************************)
(* A model of ruggit: the GitLab resource client (src/src/gapi.rs) and the *)
(* encrypted caches (src/src/cache.rs, gitlab_cache.rs, token.rs,          *)
(* crypto.rs).                                                             *)
(*                                                                         *)
(* Strings are sequences of one-character strings, so that joining path    *)
(* segments is a real concatenation.  An Option is a sequence of length 0  *)
(* (None) or 1 (Some).  A Result is a record with the fields ok, val, err. *)
(***************************************************************************)
EXTENDS Integers, Sequences, FiniteSets, Bags, TLC

VARIABLES
    gapi,             \* GApi { domain, auth_token }
    uri,              \* the UriMeta handed to resource_from_uri
    rpc,              \* resource_from_uri: "start", "groups", "projects", "done"
    listing,          \* the running (or last) activation of get_all_pages
    containing_group, \* Option: the block value 'a of resource_from_uri
    ret,              \* Option<Result<GitlabResource>>: what resource_from_uri returned
    requests,         \* bag of the HTTP requests issued so far
    files,            \* the file system: path -> Option<ciphertext>
    pc,               \* per invocation: "idle", "run", "writing" or "exited"
    passphrase,       \* per invocation: the passphrase typed in
    tstore,           \* per invocation: Option<TokenStore>
    cache,            \* per invocation: Option<CachedResources>
    status,           \* per invocation: Option<exit status>
    last,             \* per invocation: the last operation, its result and output
    rd,               \* history, per invocation: how fs::read went in each constructor
    hist,             \* history: the resources inserted so far
    arg,              \* the command line argument, and the checkout it may name
    stage,            \* URI resolution: "idle", "start", "parsed", "resolved", "again"
    source,           \* Option<Source>: what parse_source returned
    urimeta,          \* Option<Result<UriMeta>>: what UriMeta::new returned
    reparsed,         \* Option<Result<UriMeta>>: UriMeta::new on urimeta's url
    mpc,              \* main: the statement the running invocation is at
    log,              \* history: what the running (or last) invocation of main did
    past              \* history: what the invocations before it achieved

resolveVars == <<gapi, uri, rpc, listing, containing_group, ret, requests>>

cacheVars == <<files, pc, passphrase, tstore, cache, status, last, rd, hist>>

parseVars == <<arg, stage, source, urimeta, reparsed>>

vars == <<gapi, uri, rpc, listing, containing_group, ret, requests,
          files, pc, passphrase, tstore, cache, status, last, rd, hist,
          arg, stage, source, urimeta, reparsed, mpc, log, past>>

mainVars == <<mpc, log, past>>

----------------------------------------------------------------------------
(* Bounds and input alphabets *)

\* the largest x-total-pages value the server answers with
MaxPages == 2

Slash == <<"/">>
SegA == <<"a">>
SegB == <<"b">>
Segs == {SegA, SegB}
\* requested paths: one or two segments (parse_tokens never returns an empty list)
Requests == {<<s>> : s \in Segs} \cup {<<s, t>> : s \in Segs, t \in Segs}
Ids == {1, 2}
Domains == {"gitlab.com"}
\* "t" is a legal header value, "t\n" is not (HeaderValue::from_str rejects it)
Tokens == {"t", "t\n"}
\* the invocations of the program; Sequential are those run one after the other
Procs == {1, 2}
Sequential == {1}
Passphrases == {"p", "q"}
Paths == {"tokens", "resources"}

None == <<>>
Some(x) == <<x>>

Ok(v) == [ok |-> TRUE, val |-> v, err |-> ""]
Err(e) == [ok |-> FALSE, val |-> <<>>, err |-> e]

----------------------------------------------------------------------------
(* Pure helpers *)

RECURSIVE Join(_, _)
Join(tokens, sep) ==
    IF tokens = <<>> THEN <<>>
    ELSE IF Len(tokens) = 1 THEN tokens[1]
    ELSE tokens[1] \o sep \o Join(Tail(tokens), sep)

RECURSIVE Concat(_)
Concat(seqs) ==
    IF seqs = <<>> THEN <<>> ELSE seqs[1] \o Concat(Tail(seqs))

PathA == Join(<<SegA>>, Slash)
PathAB == Join(<<SegA, SegB>>, Slash)

\* JSON objects a listing page may carry.  "id" is absent in a malformed object.
RawObjects ==
    [id : {Some(i) : i \in Ids},
     full_path : {None, Some(PathA), Some(PathAB)},
     path_with_namespace : {None}]
    \cup
    [id : {Some(i) : i \in Ids},
     full_path : {None},
     path_with_namespace : {Some(PathAB)}]
    \cup
    [id : {Some(i) : i \in Ids},
     full_path : {Some(PathA)},
     path_with_namespace : {Some(PathAB)}]
    \cup
    {[id |-> None, full_path |-> Some(PathA), path_with_namespace |-> None]}

\* response bodies: text that is no JSON array, or an array of at most one object
Junk == [json |-> FALSE, items |-> <<>>]
Bodies == {Junk} \cup {[json |-> TRUE, items |-> <<>>]}
          \cup {[json |-> TRUE, items |-> <<o>>] : o \in RawObjects}

\* serde: GitlabResourceMeta needs "id"; the two Option fields default to None
ParseMeta(o) ==
    IF o.id = None THEN Err("missing field id")
    ELSE Ok([id |-> o.id[1], full_path |-> o.full_path,
             path_with_namespace |-> o.path_with_namespace])

\* mutant of ParsePage: a body that does not parse counts as an empty page
ParsePage_Lenient(body) ==
    IF ~body.json THEN Ok(<<>>)
    ELSE IF \E k \in 1..Len(body.items) : ~ParseMeta(body.items[k]).ok
         THEN Ok(<<>>)
         ELSE Ok([k \in 1..Len(body.items) |-> ParseMeta(body.items[k]).val])

\* serde_json::from_str::<Vec<T>>(text)
ParsePage(body) ==
    IF ~body.json THEN Err("json")
    ELSE IF \E k \in 1..Len(body.items) : ~ParseMeta(body.items[k]).ok
         THEN Err("json")
         ELSE Ok([k \in 1..Len(body.items) |-> ParseMeta(body.items[k]).val])

\* HeaderValue::from_str(auth_token)
HeaderValueOk(token) == token = "t"

GroupsUrl(domain) ==
    [domain |-> domain, kind |-> "groups", id |-> None, sub |-> ""]
ProjectsUrl(domain, group_id) ==
    [domain |-> domain, kind |-> "groups", id |-> Some(group_id), sub |-> "projects"]
GroupResourceUrl(domain, id) ==
    [domain |-> domain, kind |-> "groups", id |-> Some(id), sub |-> ""]
ProjectResourceUrl(domain, id) ==
    [domain |-> domain, kind |-> "projects", id |-> Some(id), sub |-> ""]

\* a request: the listing url and its ?page= parameter (None on the first request)
Request(url, page) == [url |-> url, page |-> page]

\* the first element of list whose full_path is Some(path), as the for loops find it
FirstByFullPath(list, path) ==
    LET hits == {k \in 1..Len(list) : list[k].full_path = Some(path)}
    IN IF hits = {} THEN None
       ELSE Some(list[CHOOSE k \in hits : \A j \in hits : k <= j])

FirstByNamespace(list, path) ==
    LET hits == {k \in 1..Len(list) : list[k].path_with_namespace = Some(path)}
    IN IF hits = {} THEN None
       ELSE Some(list[CHOOSE k \in hits : \A j \in hits : k <= j])

\* mutant of ResolveInGroups: the containing group is looked for first
ResolveInGroups_ParentFirst(groups, tokens) ==
    LET hit == FirstByFullPath(groups, Join(tokens, Slash))
        parent == FirstByFullPath(groups, Join(SubSeq(tokens, 1, Len(tokens) - 1), Slash))
    IN IF parent # None THEN [kind |-> "contained", meta |-> parent]
       ELSE IF hit # None THEN [kind |-> "group", meta |-> hit]
       ELSE [kind |-> "none", meta |-> None]

\* mutant of ResolveInGroups: without a containing group, the first group is tried
ResolveInGroups_FallbackFirst(groups, tokens) ==
    LET hit == FirstByFullPath(groups, Join(tokens, Slash))
        parent == FirstByFullPath(groups, Join(SubSeq(tokens, 1, Len(tokens) - 1), Slash))
    IN IF hit # None THEN [kind |-> "group", meta |-> hit]
       ELSE IF parent # None THEN [kind |-> "contained", meta |-> parent]
       ELSE IF groups # <<>> THEN [kind |-> "contained", meta |-> Some(groups[1])]
       ELSE [kind |-> "none", meta |-> None]

\* resource_from_uri, the labelled block 'a: what the group list decides
ResolveInGroups(groups, tokens) ==
    LET expected_path == Join(tokens, Slash)
        hit == FirstByFullPath(groups, expected_path)
        probable_group_path == Join(SubSeq(tokens, 1, Len(tokens) - 1), Slash)
        parent == FirstByFullPath(groups, probable_group_path)
    IN IF hit # None THEN [kind |-> "group", meta |-> hit]
       ELSE IF parent # None THEN [kind |-> "contained", meta |-> parent]
       ELSE [kind |-> "none", meta |-> None]

\* mutant of ResolveInProjects: the first project of the group is taken
ResolveInProjects_AnyProject(projects, tokens) ==
    IF projects = <<>> THEN None ELSE Some(projects[1])

\* resource_from_uri, the loop over the containing group's projects
ResolveInProjects(projects, tokens) ==
    FirstByNamespace(projects, Join(tokens, Slash))

GitlabResource(url, meta) ==
    [url |-> url, auth_token |-> gapi.auth_token, meta |-> meta]

----------------------------------------------------------------------------
(* get_all_pages *)

\* mutant of SpawnPages: the spawn loop starts at page 2
SpawnPages_FromTwo(total_pages) == [i \in 1..(total_pages - 1) |-> i + 1]

\* the page numbers the spawn loop covers, in the order the tasks are pushed
SpawnPages(total_pages) == [i \in 1..total_pages |-> i]

\* tokio::spawn of the page tasks: task k fetches page SpawnPages(..)[k]
SpawnTasks(total_pages) ==
    LET pages == SpawnPages(total_pages)
    IN [k \in 1..Len(pages) |-> [page |-> pages[k], st |-> "spawned", out |-> Err("")]]

\* mutant of AwaitCandidates: the merge loop takes the tasks as they complete
AwaitCandidates_AsCompleted(l) == (DOMAIN l.tasks) \ l.awaited

\* the tasks the merge loop may await next: the first one not yet awaited
AwaitCandidates(l) ==
    LET rest == (DOMAIN l.tasks) \ l.awaited
    IN IF rest = {} THEN {} ELSE {CHOOSE k \in rest : \A j \in rest : k <= j}

\* mutant of DropHandles: the tasks not yet awaited are aborted
DropHandles_Abort(tasks, awaited) ==
    [k \in DOMAIN tasks |->
        IF k \notin awaited /\ tasks[k].st # "done"
        THEN [tasks[k] EXCEPT !.st = "aborted"]
        ELSE tasks[k]]

\* what the early return of the merge loop does to the task handles: they are
\* dropped, which detaches the tasks and leaves them running
DropHandles(tasks, awaited) == tasks

NoListing ==
    [url |-> GroupsUrl(""), pc |-> "idle", total_pages |-> 0, tasks |-> <<>>,
     awaited |-> {}, result |-> <<>>, ret |-> Err(""),
     \* history: the first response, and whether some task completed before a
     \* task that was spawned earlier
     resp |-> None, reordered |-> FALSE]

\* get_all_pages up to its first await: the header map is built and the first
\* request is sent
Call(url) ==
    IF HeaderValueOk(gapi.auth_token)
    THEN [NoListing EXCEPT !.url = url, !.pc = "first"]
    ELSE [NoListing EXCEPT !.url = url, !.pc = "returned",
                           !.ret = Err("invalid header value")]

CallRequests(l, reqs) ==
    IF l.pc = "first" THEN reqs (+) SetToBag({Request(l.url, None)}) ELSE reqs

\* the merge loop after a step: returns Ok(result) once every task was awaited
Merged(l) ==
    IF l.pc = "await" /\ l.awaited = DOMAIN l.tasks
    THEN [l EXCEPT !.pc = "returned", !.ret = Ok(l.result)]
    ELSE l

\* what the server may answer to the first request
FirstResponses ==
    {[kind |-> k, n |-> 0] : k \in {"senderr", "noheader", "badheader"}}
    \cup {[kind |-> "pages", n |-> n] : n \in 0..MaxPages}

\* get_all_pages from the first response to the first await of the merge loop
OnFirstResponse(l, resp) ==
    CASE resp.kind = "senderr" ->
           [l EXCEPT !.pc = "returned", !.ret = Err("send"), !.resp = Some(resp)]
      [] resp.kind = "noheader" ->
           [l EXCEPT !.pc = "returned", !.resp = Some(resp),
                     !.ret = Err("expected paged result but got something else")]
      [] resp.kind = "badheader" ->
           [l EXCEPT !.pc = "returned", !.ret = Err("x-total-pages"),
                     !.resp = Some(resp)]
      [] OTHER ->
           Merged([l EXCEPT !.pc = "await", !.total_pages = resp.n,
                            !.tasks = SpawnTasks(resp.n), !.resp = Some(resp)])

\* one turn of the merge loop: task k has completed and is awaited
OnAwait(l, k) ==
    LET t == l.tasks[k]
        parsed == IF t.out.ok THEN ParsePage(t.out.val) ELSE Err(t.out.err)
    IN IF parsed.ok
       THEN Merged([l EXCEPT !.awaited = @ \cup {k}, !.result = @ \o parsed.val])
       ELSE [l EXCEPT !.awaited = @ \cup {k}, !.pc = "returned",
                      !.ret = Err(parsed.err),
                      !.tasks = DropHandles(@, l.awaited \cup {k})]

----------------------------------------------------------------------------
(* resource_from_uri *)

\* resource_from_uri returns r
Finish(l, reqs, r) ==
    /\ listing' = l
    /\ requests' = reqs
    /\ rpc' = "done"
    /\ ret' = Some(r)

\* the projects listing returned
AfterProjects(l, reqs) ==
    /\ UNCHANGED containing_group
    /\ IF ~l.ret.ok THEN Finish(l, reqs, Err(l.ret.err))
       ELSE LET p == ResolveInProjects(l.ret.val, uri.tokens)
            IN IF p # None
               THEN Finish(l, reqs,
                       Ok(GitlabResource(ProjectResourceUrl(gapi.domain, p[1].id), p[1])))
               ELSE Finish(l, reqs, Err("found no gitlab resource"))

\* self.projects(containing_group.id) up to its first await
StartProjects(reqs, group) ==
    LET l2 == Call(ProjectsUrl(gapi.domain, group.id))
    IN /\ containing_group' = Some(group)
       /\ IF l2.pc = "returned" THEN Finish(l2, reqs, Err(l2.ret.err))
          ELSE /\ listing' = l2
               /\ requests' = CallRequests(l2, reqs)
               /\ rpc' = "projects"
               /\ UNCHANGED ret

\* the groups listing returned
AfterGroups(l, reqs) ==
    IF ~l.ret.ok THEN Finish(l, reqs, Err(l.ret.err)) /\ UNCHANGED containing_group
    ELSE LET d == ResolveInGroups(l.ret.val, uri.tokens)
         IN CASE d.kind = "group" ->
                   /\ Finish(l, reqs,
                        Ok(GitlabResource(GroupResourceUrl(gapi.domain, d.meta[1].id),
                                          d.meta[1])))
                   /\ UNCHANGED containing_group
              [] d.kind = "contained" -> StartProjects(reqs, d.meta[1])
              [] OTHER ->
                   /\ Finish(l, reqs, Err("no containing group found"))
                   /\ UNCHANGED containing_group

\* the caller of get_all_pages goes on as soon as the listing has returned
Resume(phase, l, reqs) ==
    IF l.pc # "returned"
    THEN /\ listing' = l
         /\ requests' = reqs
         /\ rpc' = phase
         /\ UNCHANGED <<containing_group, ret>>
    ELSE IF phase = "groups" THEN AfterGroups(l, reqs) ELSE AfterProjects(l, reqs)

\* resource_from_uri is called: self.groups() runs to its first await
ResourceFromUri ==
    /\ rpc = "start"
    /\ LET l == Call(GroupsUrl(gapi.domain))
       IN Resume("groups", l, CallRequests(l, requests))
    /\ UNCHANGED <<gapi, uri>>
    /\ UNCHANGED <<cacheVars, parseVars, mainVars>>

\* the response to the first request of the running listing arrives
FirstResponse ==
    /\ rpc \in {"groups", "projects"}
    /\ listing.pc = "first"
    /\ \E resp \in FirstResponses :
          Resume(rpc, OnFirstResponse(listing, resp), requests)
    /\ UNCHANGED <<gapi, uri>>
    /\ UNCHANGED <<cacheVars, parseVars, mainVars>>

\* get_page of task k sends its request
TaskSend(k) ==
    /\ listing.tasks[k].st = "spawned"
    /\ listing' = [listing EXCEPT !.tasks[k].st = "sent"]
    /\ requests' = requests (+) SetToBag({Request(listing.url, Some(listing.tasks[k].page))})
    /\ UNCHANGED <<gapi, uri, rpc, containing_group, ret>>
    /\ UNCHANGED <<cacheVars, parseVars, mainVars>>

\* get_page of task k ends: the fetch failed, or the body text is returned
TaskComplete(k) ==
    /\ listing.tasks[k].st = "sent"
    /\ \E out \in {Err("fetch")} \cup {Ok(b) : b \in Bodies} :
          listing' = [listing EXCEPT
                         !.tasks[k].st = "done", !.tasks[k].out = out,
                         !.reordered = @ \/ \E j \in 1..(k - 1) : listing.tasks[j].st # "done"]
    /\ UNCHANGED <<gapi, uri, rpc, containing_group, ret, requests>>
    /\ UNCHANGED <<cacheVars, parseVars, mainVars>>

\* the merge loop awaits the next task, which has completed
AwaitTask ==
    /\ rpc \in {"groups", "projects"}
    /\ listing.pc = "await"
    /\ \E k \in AwaitCandidates(listing) :
          /\ listing.tasks[k].st = "done"
          /\ Resume(rpc, OnAwait(listing, k), requests)
    /\ UNCHANGED <<gapi, uri>>
    /\ UNCHANGED <<cacheVars, parseVars, mainVars>>

----------------------------------------------------------------------------
(* URI resolution: uri_meta.rs and cmdline.rs *)

Lower ==
    {"a", "b", "c", "d", "e", "f", "g", "h", "i", "j", "k", "l", "m",
     "n", "o", "p", "q", "r", "s", "t", "u", "v", "w", "x", "y", "z"}
Upper ==
    {"A", "B", "C", "D", "E", "F", "G", "H", "I", "J", "K", "L", "M",
     "N", "O", "P", "Q", "R", "S", "T", "U", "V", "W", "X", "Y", "Z"}
Digits == {"0", "1", "2", "3", "4", "5", "6", "7", "8", "9"}

\* the character class [a-z, A-Z, 0-9] of PATTERN_DOMAIN: letters, digits, and
\* the comma and the blank written between the ranges
DomainClass == Lower \cup Upper \cup Digits \cup {",", " "}

\* the characters (:|\/) that end PATTERN_DOMAIN
DomainDelimiters == {":", "/"}

\* the characters the class [^:|\/] of PATTERN_URL_TOKENS leaves out
TokenDelimiters == {":", "|", "/"}

Gitlab == <<"g", "i", "t", "l", "a", "b">>
DotGit == <<".", "g", "i", "t">>
Colon == <<":">>
Tilde == <<"~">>

\* the maximal runs of s that hold no character of seps, from left to right;
\* cur is the run being read
RECURSIVE Runs(_, _, _)
Runs(s, seps, cur) ==
    IF s = <<>> THEN (IF cur = <<>> THEN <<>> ELSE <<cur>>)
    ELSE IF Head(s) \in seps
         THEN (IF cur = <<>> THEN <<>> ELSE <<cur>>) \o Runs(Tail(s), seps, <<>>)
         ELSE Runs(Tail(s), seps, Append(cur, Head(s)))

\* re.captures_iter(url) for PATTERN_URL_TOKENS
Captures(url) == Runs(url, TokenDelimiters, <<>>)

\* str::ends_with
EndsWith(s, suffix) ==
    /\ Len(s) >= Len(suffix)
    /\ SubSeq(s, Len(s) - Len(suffix) + 1, Len(s)) = suffix

parse_tokens(url) ==
    LET tokens == Captures(url)
    IN IF Len(tokens) > 1
       THEN LET final == tokens[Len(tokens)]
                stripped == IF EndsWith(final, DotGit)
                            THEN SubSeq(final, 1, Len(final) - Len(DotGit))
                            ELSE final
            IN Some(Tail([tokens EXCEPT ![Len(tokens)] = stripped]))
       ELSE None

\* where the class run that starts after position d of url stops: the first
\* position whose character is not in the class (Len(url) + 1 at the end)
ClassEnd(url, d) ==
    LET stops == {e \in (d + 1)..Len(url) : url[e] \notin DomainClass}
    IN IF stops = {} THEN Len(url) + 1
       ELSE CHOOSE e \in stops : \A f \in stops : e <= f

\* PATTERN_DOMAIN matches url from position i with its literal dot at d: "gitlab",
\* any characters but a line feed, the dot, a run of the class, a delimiter
MatchesAt(url, i, d) ==
    /\ i + Len(Gitlab) - 1 <= Len(url)
    /\ SubSeq(url, i, i + Len(Gitlab) - 1) = Gitlab
    /\ d >= i + Len(Gitlab)
    /\ d <= Len(url)
    /\ url[d] = "."
    /\ \A k \in (i + Len(Gitlab))..(d - 1) : url[k] # "\n"
    /\ ClassEnd(url, d) <= Len(url)
    /\ url[ClassEnd(url, d)] \in DomainDelimiters

\* the match of PATTERN_DOMAIN in url: the leftmost start, and from it the greedy
\* .* reaches the last dot a match can end with; end is the delimiter's position
DomainMatch(url) ==
    LET starts == {i \in 1..Len(url) : \E d \in 1..Len(url) : MatchesAt(url, i, d)}
    IN IF starts = {} THEN None
       ELSE LET i == CHOOSE x \in starts : \A y \in starts : x <= y
                dots == {d \in 1..Len(url) : MatchesAt(url, i, d)}
                d == CHOOSE x \in dots : \A y \in dots : y <= x
            IN Some([start |-> i, end |-> ClassEnd(url, d)])

parse_domain(url) ==
    LET m == DomainMatch(url)
    IN IF m = None THEN None
       ELSE Some(SubSeq(url, m[1].start, m[1].end - 1))

make_url(domain, tokens) == domain \o Slash \o Join(tokens, Slash)

\* the body from_web and from_disk share: the UriMeta of a url
UriMetaOf(url, resource) ==
    LET domain == parse_domain(url)
        tokens == parse_tokens(url)
    IN IF domain = None THEN Err("unable to parse domain")
       ELSE IF tokens = None THEN Err("unable to parse tokens")
       ELSE Ok([identifier |-> Join(tokens[1], Slash),
                url |-> make_url(domain[1], tokens[1]),
                domain |-> domain[1],
                tokens |-> tokens[1],
                resource |-> resource])

from_web(path) == UriMetaOf(path, None)

\* origin: the url of the remote "origin" of the repository at path, None when
\* there is no repository there or it has no such remote
from_disk(path, origin) ==
    IF origin = None THEN Err("no repo info found")
    ELSE UriMetaOf(origin[1], Some("Repo"))

Web(text) == [kind |-> "Web", text |-> text]
Disk(text) == [kind |-> "Disk", text |-> text]

\* UriMeta::new
UriMetaNew(src, origin) ==
    IF src.kind = "Web" THEN from_web(src.text) ELSE from_disk(src.text, origin)

\* str::replacen(from, to, 1), from being one character
RECURSIVE ReplaceFirst(_, _, _)
ReplaceFirst(s, from, to) ==
    IF s = <<>> THEN <<>>
    ELSE IF Head(s) = from THEN to \o Tail(s)
    ELSE <<Head(s)>> \o ReplaceFirst(Tail(s), from, to)

\* str::replace(from, to), from being one character
RECURSIVE ReplaceAll(_, _, _)
ReplaceAll(s, from, to) ==
    IF s = <<>> THEN <<>>
    ELSE (IF Head(s) = from THEN to ELSE <<Head(s)>>) \o ReplaceAll(Tail(s), from, to)

\* home: Option, the value of HOME
parse_source(input, home) ==
    IF DomainMatch(input) # None THEN Web(ReplaceFirst(input, ":", Slash))
    ELSE IF home = None THEN Disk(input)
    ELSE Disk(ReplaceAll(input, "~", home[1]))

\* the inputs: hosts, paths and the forms a remote is written in
DotCom == <<".", "c", "o", "m">>
HostCom == Gitlab \o DotCom
HostMy == <<"m", "y", ".">> \o HostCom
HostOther == <<"h", ".", "i", "o">>
Hosts == {HostCom, HostMy, HostOther}
SegO == <<"o">>
SegR == <<"r">>
SegDotted == <<"o", ".", "x">>
SegmentLists == {<<SegO>>, <<SegO, SegR>>, <<SegDotted, SegR>>}
Https == <<"h", "t", "t", "p", "s", ":", "/", "/">>
GitAt == <<"g", "i", "t", "@">>
HomeDir == <<"/", "h">>
Checkout == <<"~", "/", "r">>
TypedForms == {"host/path", "host:path", "user@host:path", "scheme://host/path"}
DiskForms == {"origin scheme://host/path", "origin user@host:path"}

\* the text a remote has in a form; git: with the suffix .git
Remote(form, host, segs, git) ==
    LET path == Join(segs, Slash) \o (IF git THEN DotGit ELSE <<>>)
    IN CASE form = "host/path" -> host \o Slash \o path
         [] form = "host:path" -> host \o Colon \o path
         [] form \in {"user@host:path", "origin user@host:path"} ->
              GitAt \o host \o Colon \o path
         [] OTHER -> Https \o host \o Slash \o path

\* a command line argument naming a project: typed, or the path of a checkout
\* whose origin is the remote
ProjectArgs ==
    {[text |-> IF form \in TypedForms THEN Remote(form, host, segs, git) ELSE Checkout,
      origin |-> IF form \in TypedForms THEN None
                 ELSE Some(Remote(form, host, segs, git)),
      form |-> form, host |-> host, segs |-> segs] :
        form \in TypedForms \cup DiskForms, host \in Hosts,
        segs \in SegmentLists, git \in BOOLEAN}

\* other arguments: a host alone, with and without the delimiter; a path ending in
\* a segment ".git"; a path with a vertical bar; directories without a repository
OtherTexts ==
    {HostCom, HostCom \o Slash, HostCom \o Slash \o SegO \o Slash \o DotGit,
     HostCom \o Slash \o SegO \o <<"|">> \o SegR, Checkout, Slash \o SegR}
OtherArgs ==
    {[text |-> t, origin |-> None, form |-> "other", host |-> <<>>, segs |-> <<>>] :
        t \in OtherTexts}

NoArg == [text |-> <<>>, origin |-> None, form |-> "", host |-> <<>>, segs |-> <<>>]

\* no URI is being resolved
ParseIdle ==
    /\ arg = NoArg
    /\ stage = "idle"
    /\ source = None
    /\ urimeta = None
    /\ reparsed = None

\* main: cmdline::parse_source(args[1]); HOME is set, main has left otherwise
ParseSource ==
    /\ stage = "start"
    /\ source' = Some(parse_source(arg.text, Some(HomeDir)))
    /\ stage' = "parsed"
    /\ UNCHANGED <<arg, urimeta, reparsed>>
    /\ UNCHANGED <<resolveVars, cacheVars, mainVars>>

\* main: UriMeta::new(&source)
NewUriMeta ==
    /\ stage = "parsed"
    /\ urimeta' = Some(UriMetaNew(source[1], arg.origin))
    /\ stage' = "resolved"
    /\ UNCHANGED <<arg, source, reparsed>>
    /\ UNCHANGED <<resolveVars, cacheVars, mainVars>>

\* the url of the UriMeta is resolved again, as a typed url
Again ==
    /\ stage = "resolved"
    /\ urimeta[1].ok
    /\ reparsed' = Some(UriMetaNew(Web(urimeta[1].val.url), None))
    /\ stage' = "again"
    /\ UNCHANGED <<arg, source, urimeta>>
    /\ UNCHANGED <<resolveVars, cacheVars, mainVars>>

----------------------------------------------------------------------------
(* The top-level flow, its inputs and history: bin/rvar.rs *)

\* the paths asked for on the command line: a group, and a group or project in it
MainRequests == {<<SegA>>, <<SegA, SegB>>}
MainIdentifiers == {Join(t, Slash) : t \in MainRequests}

\* what the user may type at the prompt "domain: "
TypedDomains == {"gitlab.com", "gitlab.org"}

NoLog ==
    [looked_up |-> FALSE, prompt |-> None, api |-> FALSE, resolved |-> None,
     persisted |-> FALSE, out |-> None]
NoPast == [served |-> [i \in MainIdentifiers |-> None], collected |-> None]

\* main is not running and has not run
MainIdle ==
    /\ mpc = "idle"
    /\ log = NoLog
    /\ past = NoPast

----------------------------------------------------------------------------
(* The encrypted store: crypto.rs *)

\* age with a passphrase: the ciphertext opens under the passphrase it was made
\* with, and not at all once it is damaged
Encrypt(passwd, content) == Ok([intact |-> TRUE, key |-> passwd, plain |-> content])

Decrypt(passwd, content) ==
    IF content.intact /\ content.key = passwd THEN Ok(content.plain)
    ELSE Err("DecryptError")

\* PasswdProtectedFile::new
PasswdProtectedFile(passwd, path) == [path |-> path, passwd |-> passwd]

\* PasswdProtectedFile::read; io_fault: fs::read fails although the file exists
Read(file, fs, io_fault) ==
    IF fs[file.path] = None \/ io_fault THEN Err("IO")
    ELSE Decrypt(file.passwd, fs[file.path][1])

\* what File::create followed by a failed write leaves: a file that is no
\* ciphertext of anything
Truncated == [intact |-> FALSE, key |-> "", plain |-> [top |-> "", entries |-> <<>>]]

\* how fs::write may end: written; failed before the file was opened; failed
\* after File::create truncated it
WriteOutcomes == {"ok", "unopened", "partial"}

\* PasswdProtectedFile::write: the result and the file system after it
Write(file, content, fs, outcome) ==
    LET enc == Encrypt(file.passwd, content)
    IN CASE outcome = "ok" ->
              [res |-> Ok(<<>>), fs |-> [fs EXCEPT ![file.path] = Some(enc.val)]]
         [] outcome = "unopened" ->
              [res |-> Err("IO"), fs |-> fs]
         [] OTHER ->
              [res |-> Err("IO"), fs |-> [fs EXCEPT ![file.path] = Some(Truncated)]]

----------------------------------------------------------------------------
(* serde_json over ResourceMap and OnDisk *)

EmptyMap == <<>>

MapInsert(m, k, v) == [x \in (DOMAIN m) \cup {k} |-> IF x = k THEN v ELSE m[x]]

\* the orders a HashMap with the keys S may be iterated in
Orders(S) ==
    {o \in [1..Cardinality(S) -> S] : \A x \in S : \E k \in DOMAIN o : o[k] = x}

\* bytes that are not the JSON of any map (another format, a truncated text)
JunkBytes == [top |-> "", entries |-> <<>>]

\* JSON of an older format: the field is there, its entry has no "id"
DriftedBytes ==
    [top |-> "data",
     entries |-> <<[key |-> PathA,
                    value |-> [meta |-> [id |-> None, full_path |-> Some(PathA),
                                         path_with_namespace |-> None],
                               variables |-> <<>>]]>>]

MetaToJson(m) ==
    [id |-> Some(m.id), full_path |-> m.full_path,
     path_with_namespace |-> m.path_with_namespace]

\* an Option<String> as a JSON value: null, or the string
OptionToJson(o) == IF o = None THEN [null |-> TRUE] ELSE [string |-> o[1]]

OptionFromJson(j) == IF "null" \in DOMAIN j THEN None ELSE Some(j.string)

\* GitlabVariable { key, value, description } as a JSON object
VariableToJson(v) ==
    [key |-> v.key, value |-> v.value, description |-> OptionToJson(v.description)]

VariableFromJson(j) ==
    [key |-> j.key, value |-> j.value, description |-> OptionFromJson(j.description)]

\* mutant of ResourceToJson: the variables are left out
ResourceToJson_NoVariables(r) == [meta |-> MetaToJson(r.meta), variables |-> <<>>]

\* Resource { meta, variables } as a JSON object
ResourceToJson(r) ==
    [meta |-> MetaToJson(r.meta),
     variables |-> [k \in DOMAIN r.variables |-> VariableToJson(r.variables[k])]]

ResourceFromJson(j) ==
    LET m == ParseMeta(j.meta)
    IN IF m.ok
       THEN Ok([meta |-> m.val,
                variables |-> [k \in DOMAIN j.variables |-> VariableFromJson(j.variables[k])]])
       ELSE Err("json")

TokenToJson(t) == [string |-> t]

TokenFromJson(j) == Ok(j.string)

\* the values of the map field `top`: Resource in ResourceMap.data, String in
\* OnDisk.tokens
ValueToJson(top, v) == IF top = "data" THEN ResourceToJson(v) ELSE TokenToJson(v)

ValueFromJson(top, j) == IF top = "data" THEN ResourceFromJson(j) ELSE TokenFromJson(j)

\* serde_json::to_vec of a struct with the one map field `top`, the map being
\* written in the iteration order `order`
Serialize(top, m, order) ==
    [top |-> top,
     entries |-> [k \in DOMAIN order |->
                     [key |-> order[k], value |-> ValueToJson(top, m[order[k]])]]]

\* the map a JSON object deserializes to: of two entries with one key, the later
\* one stays
CollectEntries(top, entries) ==
    LET keys == {entries[k].key : k \in DOMAIN entries}
        at(x) == CHOOSE k \in DOMAIN entries :
                    /\ entries[k].key = x
                    /\ \A j \in DOMAIN entries : entries[j].key = x => j <= k
    IN [x \in keys |-> ValueFromJson(top, entries[at(x)].value).val]

\* serde_json::from_slice into a struct with the one map field `top`
Deserialize(top, bytes) ==
    IF bytes.top # top THEN Err("json")
    ELSE IF \E k \in DOMAIN bytes.entries : ~ValueFromJson(top, bytes.entries[k].value).ok
         THEN Err("json")
         ELSE Ok(CollectEntries(top, bytes.entries))

SerializeResourceMap(m, order) == Serialize("data", m, order)
DeserializeResourceMap(bytes) == Deserialize("data", bytes)
SerializeOnDisk(m, order) == Serialize("tokens", m, order)
DeserializeOnDisk(bytes) == Deserialize("tokens", bytes)

----------------------------------------------------------------------------
(* Cache::new, TokenStore::new and the operations on them *)

\* how a constructor ends: with the value built, or with the process ended
Built(value, printed) ==
    [kind |-> "value", value |-> Some(value), code |-> 0, printed |-> printed]
Exited(code, printed) ==
    [kind |-> "exit", value |-> None, code |-> code, printed |-> printed]

\* mutant of CacheNew: every read error gives the empty default
CacheNew_AnyErrorEmpty(on_disk, content) ==
    IF ~content.ok
    THEN Built([in_mem |-> EmptyMap, persistent |-> on_disk], Some("clearing cache"))
    ELSE LET parsed == DeserializeResourceMap(content.val)
         IN Built([in_mem |-> IF parsed.ok THEN parsed.val ELSE EmptyMap,
                   persistent |-> on_disk], None)

\* mutant of CacheNew: bytes that do not deserialize are an unrecoverable error
CacheNew_StrictParse(on_disk, content) ==
    IF ~content.ok
    THEN IF content.err = "IO"
         THEN Built([in_mem |-> EmptyMap, persistent |-> on_disk], Some("clearing cache"))
         ELSE Exited(1, Some("unrecoverable error"))
    ELSE LET parsed == DeserializeResourceMap(content.val)
         IN IF parsed.ok
            THEN Built([in_mem |-> parsed.val, persistent |-> on_disk], None)
            ELSE Exited(1, Some("unrecoverable error"))

\* Cache::<ResourceMap, _>::new(on_disk), given what on_disk.read() returned
CacheNew(on_disk, content) ==
    IF ~content.ok
    THEN IF content.err = "IO"
         THEN Built([in_mem |-> EmptyMap, persistent |-> on_disk], Some("clearing cache"))
         ELSE Exited(1, Some("unrecoverable error"))
    ELSE LET parsed == DeserializeResourceMap(content.val)
         IN Built([in_mem |-> IF parsed.ok THEN parsed.val ELSE EmptyMap,
                   persistent |-> on_disk], None)

\* TokenStore::new(file), given what file.read() returned
TokenStoreNew(file, content) ==
    IF ~content.ok
    THEN CASE content.err = "DecryptError" -> Exited(1, Some("Decryption failed"))
           [] content.err = "IO" ->
                Built([file |-> file, on_disk |-> EmptyMap],
                      Some("IO error, clearing disk content"))
           [] OTHER -> Exited(101, Some("this should be impossible"))
    ELSE LET parsed == DeserializeOnDisk(content.val)
         IN Built([file |-> file, on_disk |-> IF parsed.ok THEN parsed.val ELSE EmptyMap],
                  None)

\* mutant of Identifier: path_with_namespace is preferred
Identifier_NamespaceFirst(meta) ==
    IF meta.path_with_namespace # None THEN meta.path_with_namespace
    ELSE IF meta.full_path # None THEN meta.full_path
    ELSE None

\* CachedResources::insert, the block 'a: the key of a resource
Identifier(meta) ==
    IF meta.full_path # None THEN meta.full_path
    ELSE IF meta.path_with_namespace # None THEN meta.path_with_namespace
    ELSE None

\* CachedResources::get and list
Get(c, identifier) ==
    IF identifier \in DOMAIN c.in_mem THEN Some(c.in_mem[identifier]) ELSE None
List(c) == DOMAIN c.in_mem

\* TokenStore::get and list_domains
GetToken(t, domain) ==
    IF domain \in DOMAIN t.on_disk THEN Some(t.on_disk[domain]) ELSE None
ListDomains(t) == DOMAIN t.on_disk

\* the inputs of insert and add_token
Meta(id, full_path, path_with_namespace) ==
    [id |-> id, full_path |-> full_path, path_with_namespace |-> path_with_namespace]
Variable == [key |-> "K", value |-> "v", description |-> None]
Described == [key |-> "K", value |-> "w", description |-> Some("d")]
\* (meta, variables) pairs: a group with and without variables, a project, a
\* record with both paths, a record with none
InsertInputs ==
    {<<Meta(1, Some(PathA), None), <<>>>>,
     <<Meta(1, Some(PathA), None), <<Variable>>>>,
     <<Meta(2, None, Some(PathAB)), <<Variable, Described>>>>,
     <<Meta(2, Some(PathA), Some(PathAB)), <<>>>>,
     <<Meta(1, None, None), <<>>>>}
AuthTokens == {"t", "u"}

NoOp == [op |-> "", ret |-> Ok(<<>>), printed |-> None]
NoReads == [p \in Paths |-> None]

\* an invocation starts: the passphrase is typed in
Start(p, passwd) ==
    /\ pc[p] \in {"idle", "exited"}
    /\ pc' = [pc EXCEPT ![p] = "run"]
    /\ passphrase' = [passphrase EXCEPT ![p] = passwd]
    /\ tstore' = [tstore EXCEPT ![p] = None]
    /\ cache' = [cache EXCEPT ![p] = None]
    /\ status' = [status EXCEPT ![p] = None]
    /\ last' = [last EXCEPT ![p] = NoOp]
    /\ rd' = [rd EXCEPT ![p] = NoReads]
    /\ UNCHANGED <<files, hist>>
    /\ UNCHANGED <<resolveVars, parseVars, mainVars>>

\* what a constructor leaves behind, o being CacheNew(..) or TokenStoreNew(..)
Constructed(p, op, o) ==
    /\ pc' = [pc EXCEPT ![p] = IF o.kind = "value" THEN "run" ELSE "exited"]
    /\ status' = [status EXCEPT ![p] = IF o.kind = "value" THEN None ELSE Some(o.code)]
    /\ last' = [last EXCEPT ![p] = [op |-> op, ret |-> Ok(<<>>), printed |-> o.printed]]

\* main: TokenStore::new(config_file)
NewTokenStore(p) ==
    /\ pc[p] = "run"
    /\ tstore[p] = None
    /\ \E io_fault \in BOOLEAN :
          LET file == PasswdProtectedFile(passphrase[p], "tokens")
              content == Read(file, files, io_fault)
              o == TokenStoreNew(file, content)
          IN /\ Constructed(p, "TokenStore::new", o)
             /\ tstore' = [tstore EXCEPT ![p] = o.value]
             /\ rd' = [rd EXCEPT ![p]["tokens"] =
                          Some([io_fault |-> io_fault, present |-> files["tokens"] # None])]
    /\ UNCHANGED <<files, passphrase, cache, hist>>
    /\ UNCHANGED <<resolveVars, parseVars, mainVars>>

\* main: CachedResources::new(resource_file)
NewCachedResources(p) ==
    /\ pc[p] = "run"
    /\ tstore[p] # None
    /\ cache[p] = None
    /\ \E io_fault \in BOOLEAN :
          LET file == PasswdProtectedFile(passphrase[p], "resources")
              content == Read(file, files, io_fault)
              o == CacheNew(file, content)
          IN /\ Constructed(p, "CachedResources::new", o)
             /\ cache' = [cache EXCEPT ![p] = o.value]
             /\ rd' = [rd EXCEPT ![p]["resources"] =
                          Some([io_fault |-> io_fault,
                                present |-> files["resources"] # None])]
    /\ UNCHANGED <<files, passphrase, tstore, hist>>
    /\ UNCHANGED <<resolveVars, parseVars, mainVars>>

\* the cache of p was built empty although the resources file was there
Lossy(p) ==
    /\ rd[p]["resources"] # None
    /\ rd[p]["resources"][1].present
    /\ rd[p]["resources"][1].io_fault

\* the history after an insert: the latest resource of every identifier, whether
\* an identifier was inserted again with another resource, and whether every
\* insert so far was persisted from a cache that had loaded the file.  Once that
\* is false the history is no longer kept.
NoHistory == [latest |-> EmptyMap, valid |-> FALSE, overwrote |-> FALSE]
Inserted(h, identifier, resource, persisted) ==
    IF ~(h.valid /\ persisted) THEN NoHistory
    ELSE [latest |-> MapInsert(h.latest, identifier, resource),
          valid |-> TRUE,
          overwrote |-> \/ h.overwrote
                        \/ /\ identifier \in DOMAIN h.latest
                           /\ h.latest[identifier] # resource]

\* CachedResources::insert(meta, variables), Cache::update included
Insert(p, meta, variables) ==
    /\ pc[p] = "run"
    /\ cache[p] # None
    /\ LET resource == [meta |-> meta, variables |-> variables]
           identifier == Identifier(meta)
       IN IF identifier = None
          THEN \* panic!("gitlab resource with no path")
               /\ pc' = [pc EXCEPT ![p] = "exited"]
               /\ status' = [status EXCEPT ![p] = Some(101)]
               /\ last' = [last EXCEPT ![p] =
                             [op |-> "insert", ret |-> Err("panic"),
                              printed |-> Some("gitlab resource with no path")]]
               /\ UNCHANGED <<files, cache, hist>>
          ELSE LET in_mem == MapInsert(cache[p][1].in_mem, identifier[1], resource)
               IN \E order \in Orders(DOMAIN in_mem), outcome \in WriteOutcomes :
                     LET w == Write(cache[p][1].persistent,
                                    SerializeResourceMap(in_mem, order), files, outcome)
                     IN /\ cache' = [cache EXCEPT ![p] = Some([@[1] EXCEPT !.in_mem = in_mem])]
                        /\ files' = w.fs
                        /\ last' = [last EXCEPT ![p] =
                                      [op |-> "insert", ret |-> Ok(<<>>),
                                       printed |-> IF w.res.ok THEN None
                                                   ELSE Some("failed to cache resource map")]]
                        /\ hist' = Inserted(hist, identifier[1], resource,
                                             w.res.ok /\ ~Lossy(p))
                        /\ UNCHANGED <<pc, status>>
    /\ UNCHANGED <<passphrase, tstore, rd>>
    /\ UNCHANGED <<resolveVars, parseVars, mainVars>>

\* TokenStore::add_token(domain, token), TokenStore::write included
AddToken(p, domain, token) ==
    /\ pc[p] = "run"
    /\ tstore[p] # None
    /\ LET on_disk == MapInsert(tstore[p][1].on_disk, domain, token)
       IN \E order \in Orders(DOMAIN on_disk), outcome \in WriteOutcomes :
             LET w == Write(tstore[p][1].file, SerializeOnDisk(on_disk, order),
                            files, outcome)
             IN /\ tstore' = [tstore EXCEPT ![p] = Some([@[1] EXCEPT !.on_disk = on_disk])]
                /\ files' = w.fs
                /\ last' = [last EXCEPT ![p] =
                              [op |-> "add_token", ret |-> w.res,
                               printed |-> Some("input token for")]]
    /\ UNCHANGED <<pc, passphrase, cache, status, rd, hist>>
    /\ UNCHANGED <<resolveVars, parseVars, mainVars>>

\* main returns
Exit(p) ==
    /\ pc[p] = "run"
    /\ pc' = [pc EXCEPT ![p] = "exited"]
    /\ status' = [status EXCEPT ![p] = Some(0)]
    /\ UNCHANGED <<files, passphrase, tstore, cache, last, rd, hist>>
    /\ UNCHANGED <<resolveVars, parseVars, mainVars>>

\* no invocation has run and no file exists
CacheIdle ==
    /\ files = [f \in Paths |-> None]
    /\ pc = [p \in Procs |-> "idle"]
    /\ passphrase = [p \in Procs |-> ""]
    /\ tstore = [p \in Procs |-> None]
    /\ cache = [p \in Procs |-> None]
    /\ status = [p \in Procs |-> None]
    /\ last = [p \in Procs |-> NoOp]
    /\ rd = [p \in Procs |-> NoReads]
    /\ hist = [latest |-> EmptyMap, valid |-> TRUE, overwrote |-> FALSE]

\* no resolution is running
ResolveIdle ==
    /\ gapi = [domain |-> "gitlab.com", auth_token |-> "t"]
    /\ uri = [domain |-> "gitlab.com", tokens |-> <<SegA>>]
    /\ rpc = "idle"
    /\ listing = NoListing
    /\ containing_group = None
    /\ ret = None
    /\ requests = EmptyBag

\* the files found at the first run: none, one cut short by a failed write, or
\* one left in another format
InitCache ==
    /\ files \in [Paths -> {None, Some(Truncated)}
                           \cup {Some(Encrypt(k, b).val) :
                                   k \in Passphrases, b \in {JunkBytes, DriftedBytes}}]
    /\ pc = [p \in Procs |-> "idle"]
    /\ passphrase = [p \in Procs |-> ""]
    /\ tstore = [p \in Procs |-> None]
    /\ cache = [p \in Procs |-> None]
    /\ status = [p \in Procs |-> None]
    /\ last = [p \in Procs |-> NoOp]
    /\ rd = [p \in Procs |-> NoReads]
    /\ hist = [latest |-> EmptyMap, valid |-> TRUE, overwrote |-> FALSE]
    /\ ResolveIdle
    /\ ParseIdle
    /\ MainIdle

NextCache ==
    \/ \E p \in Sequential, passwd \in Passphrases : Start(p, passwd)
    \/ \E p \in Sequential : NewTokenStore(p)
    \/ \E p \in Sequential : NewCachedResources(p)
    \/ \E p \in Sequential, in \in InsertInputs : Insert(p, in[1], in[2])
    \/ \E p \in Sequential : Exit(p)

\* the caches, with the invocations run one after the other
SpecCache == InitCache /\ [][NextCache]_vars

----------------------------------------------------------------------------
(* The top-level flow: bin/rvar.rs *)

\* what resource_from_uri and variables() may return for the path `tokens`, when
\* they succeed: a group at that path or, under a containing group, a project at
\* that path (groups carry full_path, projects path_with_namespace), with its
\* variables
Resolutions(tokens) ==
    LET identifier == Join(tokens, Slash)
        metas == {Meta(1, Some(identifier), None)}
                 \cup (IF Len(tokens) > 1 THEN {Meta(2, None, Some(identifier))} ELSE {})
    IN {[meta |-> m, variables |-> v] : m \in metas, v \in {<<>>, <<Variable>>}}

\* what the invocation that has ended adds to the past: the resource it printed
\* after caching it, and the passphrase under which it stored a typed token
Remember(p) ==
    LET identifier == Join(uri.tokens, Slash)
        done == mpc = "exited" /\ status[p] = Some(0)
    IN [served |->
           IF done /\ log.persisted /\ past.served[identifier] = None
           THEN [past.served EXCEPT
                    ![identifier] = Some([resource |-> log.out[1],
                                          passwd |-> passphrase[p]])]
           ELSE past.served,
        collected |->
           IF log.prompt # None /\ log.prompt[1].stored /\ past.collected = None
           THEN Some(passphrase[p])
           ELSE past.collected]

\* main up to TokenStore::new: the passphrase is typed in; tokens is the path the
\* argument resolves to
Launch(p, passwd, tokens) ==
    /\ mpc \in {"idle", "exited"}
    /\ mpc' = "tstore"
    /\ pc' = [pc EXCEPT ![p] = "run"]
    /\ passphrase' = [passphrase EXCEPT ![p] = passwd]
    /\ tstore' = [tstore EXCEPT ![p] = None]
    /\ cache' = [cache EXCEPT ![p] = None]
    /\ status' = [status EXCEPT ![p] = None]
    /\ last' = [last EXCEPT ![p] = NoOp]
    /\ rd' = [rd EXCEPT ![p] = NoReads]
    /\ uri' = [domain |-> "gitlab.com", tokens |-> tokens]
    /\ log' = NoLog
    /\ past' = Remember(p)
    /\ UNCHANGED <<files, hist>>
    /\ UNCHANGED <<gapi, rpc, listing, containing_group, ret, requests>>
    /\ UNCHANGED parseVars

\* main: TokenStore::new(config_file)
MainTokenStore(p) ==
    /\ mpc = "tstore"
    /\ LET file == PasswdProtectedFile(passphrase[p], "tokens")
           o == TokenStoreNew(file, Read(file, files, FALSE))
       IN /\ Constructed(p, "TokenStore::new", o)
          /\ tstore' = [tstore EXCEPT ![p] = o.value]
          /\ rd' = [rd EXCEPT ![p]["tokens"] =
                       Some([io_fault |-> FALSE, present |-> files["tokens"] # None])]
          /\ mpc' = IF o.kind = "value" THEN "cache" ELSE "exited"
    /\ UNCHANGED <<files, passphrase, cache, hist, log, past>>
    /\ UNCHANGED <<resolveVars, parseVars>>

\* main: CachedResources::new(resource_file) and the test cache.list().contains
MainCache(p) ==
    /\ mpc = "cache"
    /\ LET file == PasswdProtectedFile(passphrase[p], "resources")
           o == CacheNew(file, Read(file, files, FALSE))
       IN /\ Constructed(p, "CachedResources::new", o)
          /\ cache' = [cache EXCEPT ![p] = o.value]
          /\ rd' = [rd EXCEPT ![p]["resources"] =
                       Some([io_fault |-> FALSE, present |-> files["resources"] # None])]
          /\ mpc' = IF o.kind # "value" THEN "exited"
                    ELSE IF Join(uri.tokens, Slash) \in List(o.value[1]) THEN "get"
                    ELSE "token"
    /\ UNCHANGED <<files, passphrase, tstore, hist, log, past>>
    /\ UNCHANGED <<resolveVars, parseVars>>

\* main: tstore.get(&urimeta.domain) finds a token
MainLookup(p) ==
    /\ mpc = "token"
    /\ GetToken(tstore[p][1], uri.domain) # None
    /\ log' = [log EXCEPT !.looked_up = TRUE]
    /\ mpc' = "resolve"
    /\ UNCHANGED <<cacheVars, past>>
    /\ UNCHANGED <<resolveVars, parseVars>>

\* main: tstore.get finds none; domain and token are typed at the prompts and
\* tstore.add_token(&org, &token).unwrap() stores them
MainPrompt(p, org, token) ==
    /\ mpc = "token"
    /\ GetToken(tstore[p][1], uri.domain) = None
    /\ LET on_disk == MapInsert(tstore[p][1].on_disk, org, token)
       IN \E order \in Orders(DOMAIN on_disk), outcome \in WriteOutcomes :
             LET w == Write(tstore[p][1].file, SerializeOnDisk(on_disk, order),
                            files, outcome)
             IN /\ tstore' = [tstore EXCEPT ![p] = Some([@[1] EXCEPT !.on_disk = on_disk])]
                /\ files' = w.fs
                /\ last' = [last EXCEPT ![p] =
                              [op |-> "add_token", ret |-> w.res,
                               printed |-> Some("input token for")]]
                /\ log' = [log EXCEPT
                             !.looked_up = TRUE,
                             !.prompt = Some([org |-> org, token |-> token,
                                              stored |-> w.res.ok])]
                /\ pc' = [pc EXCEPT ![p] = IF w.res.ok THEN "run" ELSE "exited"]
                /\ status' = [status EXCEPT ![p] = IF w.res.ok THEN None ELSE Some(101)]
                /\ mpc' = IF w.res.ok THEN "resolve" ELSE "exited"
    /\ UNCHANGED <<passphrase, cache, rd, hist, past>>
    /\ UNCHANGED <<resolveVars, parseVars>>

\* main: GApi::new, resource_from_uri(&urimeta).await.unwrap() and
\* resource.variables().await.unwrap(); ok: both succeed
MainResolve(p, ok) ==
    /\ mpc = "resolve"
    /\ IF ok
       THEN /\ \E r \in Resolutions(uri.tokens) :
                  log' = [log EXCEPT !.api = TRUE, !.resolved = Some(r)]
            /\ mpc' = "insert"
            /\ UNCHANGED <<pc, status, last>>
       ELSE /\ log' = [log EXCEPT !.api = TRUE]
            /\ mpc' = "exited"
            /\ pc' = [pc EXCEPT ![p] = "exited"]
            /\ status' = [status EXCEPT ![p] = Some(101)]
            /\ last' = [last EXCEPT ![p] =
                          [op |-> "resource_from_uri", ret |-> Err("panic"),
                           printed |-> Some("called Result::unwrap() on an Err value")]]
    /\ UNCHANGED <<files, passphrase, tstore, cache, rd, hist, past>>
    /\ UNCHANGED <<resolveVars, parseVars>>

\* main: cache.insert(&resource.meta, &variables)
MainInsert(p) ==
    /\ mpc = "insert"
    /\ LET resource == log.resolved[1]
           identifier == Identifier(resource.meta)[1]
           in_mem == MapInsert(cache[p][1].in_mem, identifier, resource)
       IN \E order \in Orders(DOMAIN in_mem), outcome \in WriteOutcomes :
             LET w == Write(cache[p][1].persistent,
                            SerializeResourceMap(in_mem, order), files, outcome)
             IN /\ cache' = [cache EXCEPT ![p] = Some([@[1] EXCEPT !.in_mem = in_mem])]
                /\ files' = w.fs
                /\ last' = [last EXCEPT ![p] =
                              [op |-> "insert", ret |-> Ok(<<>>),
                               printed |-> IF w.res.ok THEN None
                                           ELSE Some("failed to cache resource map")]]
                /\ hist' = Inserted(hist, identifier, resource, w.res.ok)
                /\ log' = [log EXCEPT !.persisted = w.res.ok]
    /\ mpc' = "get"
    /\ UNCHANGED <<pc, passphrase, tstore, status, rd, past>>
    /\ UNCHANGED <<resolveVars, parseVars>>

\* main: cache.get(identifier).unwrap() and the println of the resource
MainGet(p) ==
    /\ mpc = "get"
    /\ LET resource == Get(cache[p][1], Join(uri.tokens, Slash))
       IN /\ log' = [log EXCEPT !.out = resource]
          /\ status' = [status EXCEPT ![p] = IF resource = None THEN Some(101) ELSE Some(0)]
    /\ pc' = [pc EXCEPT ![p] = "exited"]
    /\ mpc' = "exited"
    /\ UNCHANGED <<files, passphrase, tstore, cache, last, rd, hist, past>>
    /\ UNCHANGED <<resolveVars, parseVars>>

\* the first run on a machine
InitMain == CacheIdle /\ ResolveIdle /\ ParseIdle /\ MainIdle

NextMain ==
    \/ \E p \in Sequential, passwd \in Passphrases, tokens \in MainRequests :
          Launch(p, passwd, tokens)
    \/ \E p \in Sequential : MainTokenStore(p)
    \/ \E p \in Sequential : MainCache(p)
    \/ \E p \in Sequential : MainLookup(p)
    \/ \E p \in Sequential, org \in TypedDomains, token \in AuthTokens :
          MainPrompt(p, org, token)
    \/ \E p \in Sequential, ok \in BOOLEAN : MainResolve(p, ok)
    \/ \E p \in Sequential : MainInsert(p)
    \/ \E p \in Sequential : MainGet(p)

\* invocations of the program, one after the other
SpecMain == InitMain /\ [][NextMain]_vars

\* the GitLab instances an argument may name
Instances == {"gitlab.com", "gitlab.org"}

\* what the instance at `domain` holds at the path `tokens`: the two instances
\* hold a resource at the same path, each with its own variables
Served(domain, tokens) ==
    LET identifier == Join(tokens, Slash)
        metas == {Meta(1, Some(identifier), None)}
                 \cup (IF Len(tokens) > 1 THEN {Meta(2, None, Some(identifier))} ELSE {})
    IN {[meta |-> m,
         variables |-> IF domain = "gitlab.com" THEN <<Variable>> ELSE <<Described>>] :
          m \in metas}

\* main up to TokenStore::new, for an argument that names the instance `domain`
LaunchOn(p, passwd, domain, tokens) ==
    /\ mpc \in {"idle", "exited"}
    /\ mpc' = "tstore"
    /\ pc' = [pc EXCEPT ![p] = "run"]
    /\ passphrase' = [passphrase EXCEPT ![p] = passwd]
    /\ tstore' = [tstore EXCEPT ![p] = None]
    /\ cache' = [cache EXCEPT ![p] = None]
    /\ status' = [status EXCEPT ![p] = None]
    /\ last' = [last EXCEPT ![p] = NoOp]
    /\ rd' = [rd EXCEPT ![p] = NoReads]
    /\ uri' = [domain |-> domain, tokens |-> tokens]
    /\ log' = NoLog
    /\ past' = Remember(p)
    /\ UNCHANGED <<files, hist>>
    /\ UNCHANGED <<gapi, rpc, listing, containing_group, ret, requests>>
    /\ UNCHANGED parseVars

\* main: GApi::new(&urimeta.domain, &token), resource_from_uri and variables()
\* against the instance at urimeta.domain; ok: both succeed
MainResolveOn(p, ok) ==
    /\ mpc = "resolve"
    /\ IF ok
       THEN /\ \E r \in Served(uri.domain, uri.tokens) :
                  log' = [log EXCEPT !.api = TRUE, !.resolved = Some(r)]
            /\ mpc' = "insert"
            /\ UNCHANGED <<pc, status, last>>
       ELSE /\ log' = [log EXCEPT !.api = TRUE]
            /\ mpc' = "exited"
            /\ pc' = [pc EXCEPT ![p] = "exited"]
            /\ status' = [status EXCEPT ![p] = Some(101)]
            /\ last' = [last EXCEPT ![p] =
                          [op |-> "resource_from_uri", ret |-> Err("panic"),
                           printed |-> Some("called Result::unwrap() on an Err value")]]
    /\ UNCHANGED <<files, passphrase, tstore, cache, rd, hist, past>>
    /\ UNCHANGED <<resolveVars, parseVars>>

NextDomains ==
    \/ \E p \in Sequential, passwd \in Passphrases, domain \in Instances,
          tokens \in MainRequests : LaunchOn(p, passwd, domain, tokens)
    \/ \E p \in Sequential : MainTokenStore(p)
    \/ \E p \in Sequential : MainCache(p)
    \/ \E p \in Sequential : MainLookup(p)
    \/ \E p \in Sequential, org \in TypedDomains, token \in AuthTokens :
          MainPrompt(p, org, token)
    \/ \E p \in Sequential, ok \in BOOLEAN : MainResolveOn(p, ok)
    \/ \E p \in Sequential : MainInsert(p)
    \/ \E p \in Sequential : MainGet(p)

\* invocations of the program, one after the other, against two instances
SpecDomains == InitMain /\ [][NextDomains]_vars

----------------------------------------------------------------------------
(* Two invocations at once: fs::write is File::create and then write_all *)

\* the length of a file: it grows with the keys and the variables it holds; a
\* file that File::create has just truncated is empty
RECURSIVE EntriesLength(_)
EntriesLength(entries) ==
    IF entries = <<>> THEN 0
    ELSE Len(entries[1].key) + Len(entries[1].value.variables)
         + EntriesLength(Tail(entries))
Length(content) ==
    IF content.intact THEN 1 + EntriesLength(content.plain.entries) ELSE 0

\* write_all(enc) through a handle that File::create opened earlier: the bytes go
\* to the start of the file as it is now; what another invocation wrote since
\* then beyond their end stays, and the file is no ciphertext of anything
WriteAt(current, enc) ==
    IF current = None \/ Length(current[1]) <= Length(enc) THEN Some(enc)
    ELSE Some(Truncated)

\* the (meta, variables) pairs of the two invocations: a group, and a project
\* with variables
ConcurrentInputs ==
    {<<Meta(1, Some(PathA), None), <<>>>>,
     <<Meta(2, None, Some(PathAB)), <<Variable, Described>>>>}

\* CachedResources::insert up to File::create in fs::write: the entry is in the
\* map and the file is open and empty; opened: File::create succeeds
InsertOpen(p, meta, variables, opened) ==
    /\ pc[p] = "run"
    /\ cache[p] # None
    /\ Identifier(meta) # None
    /\ LET resource == [meta |-> meta, variables |-> variables]
           in_mem == MapInsert(cache[p][1].in_mem, Identifier(meta)[1], resource)
       IN /\ cache' = [cache EXCEPT ![p] = Some([@[1] EXCEPT !.in_mem = in_mem])]
          /\ hist' = Inserted(hist, Identifier(meta)[1], resource, FALSE)
    /\ IF opened
       THEN /\ files' = [files EXCEPT !["resources"] = Some(Truncated)]
            /\ pc' = [pc EXCEPT ![p] = "writing"]
            /\ UNCHANGED last
       ELSE /\ last' = [last EXCEPT ![p] =
                          [op |-> "insert", ret |-> Ok(<<>>),
                           printed |-> Some("failed to cache resource map")]]
            /\ UNCHANGED <<files, pc>>
    /\ UNCHANGED <<passphrase, tstore, status, rd>>
    /\ UNCHANGED <<resolveVars, parseVars, mainVars>>

\* the rest of fs::write: write_all of the encrypted map, and insert returns
InsertWrite(p) ==
    /\ pc[p] = "writing"
    /\ \E order \in Orders(DOMAIN cache[p][1].in_mem) :
          LET enc == Encrypt(cache[p][1].persistent.passwd,
                             SerializeResourceMap(cache[p][1].in_mem, order)).val
          IN files' = [files EXCEPT !["resources"] = WriteAt(@, enc)]
    /\ pc' = [pc EXCEPT ![p] = "run"]
    /\ last' = [last EXCEPT ![p] = [op |-> "insert", ret |-> Ok(<<>>), printed |-> None]]
    /\ UNCHANGED <<passphrase, tstore, cache, status, rd, hist>>
    /\ UNCHANGED <<resolveVars, parseVars, mainVars>>

NextConcurrent ==
    \/ \E p \in Procs : Start(p, "p")
    \/ \E p \in Procs : NewTokenStore(p)
    \/ \E p \in Procs : NewCachedResources(p)
    \/ \E p \in Procs, in \in ConcurrentInputs, opened \in BOOLEAN :
          InsertOpen(p, in[1], in[2], opened)
    \/ \E p \in Procs : InsertWrite(p)
    \/ \E p \in Procs : Exit(p)

\* two invocations of the program at once by one user, who types the same
\* passphrase in both, on a machine with no file yet
SpecConcurrent == InitMain /\ [][NextConcurrent]_vars

\* the first run on a machine: no file exists
InitStore == CacheIdle /\ ResolveIdle /\ ParseIdle /\ MainIdle

NextStore ==
    \/ \E p \in Sequential, passwd \in Passphrases : Start(p, passwd)
    \/ \E p \in Sequential : NewTokenStore(p)
    \/ \E p \in Sequential : NewCachedResources(p)
    \/ \E p \in Sequential, in \in InsertInputs : Insert(p, in[1], in[2])
    \/ \E p \in Sequential, domain \in Domains, token \in AuthTokens :
          AddToken(p, domain, token)
    \/ \E p \in Sequential : Exit(p)

\* the two stores from the first run on, with every operation on them
SpecStore == InitStore /\ [][NextStore]_vars

InitUri ==
    /\ arg \in ProjectArgs \cup OtherArgs
    /\ stage = "start"
    /\ source = None
    /\ urimeta = None
    /\ reparsed = None
    /\ ResolveIdle
    /\ CacheIdle
    /\ MainIdle

NextUri ==
    \/ ParseSource
    \/ NewUriMeta
    \/ Again

\* the resolution of one command line argument
SpecUri == InitUri /\ [][NextUri]_vars

Init ==
    /\ gapi \in [domain : Domains, auth_token : Tokens]
    /\ uri \in [domain : {gapi.domain}, tokens : Requests]
    /\ rpc = "start"
    /\ listing = NoListing
    /\ containing_group = None
    /\ ret = None
    /\ requests = EmptyBag
    /\ CacheIdle
    /\ ParseIdle
    /\ MainIdle

Next ==
    \/ ResourceFromUri
    \/ FirstResponse
    \/ \E k \in DOMAIN listing.tasks : TaskSend(k)
    \/ \E k \in DOMAIN listing.tasks : TaskComplete(k)
    \/ AwaitTask

\* one call of resource_from_uri
Spec == Init /\ [][Next]_vars

----------------------------------------------------------------------------
(* Properties of resource_from_uri and get_all_pages *)

\* the requested path, and the path minus its last segment
Expected == Join(uri.tokens, Slash)
Probable == Join(SubSeq(uri.tokens, 1, Len(uri.tokens) - 1), Slash)

\* the items page p of listing l carried, read off the task that fetched it
PageItems(l, p) ==
    LET ks == {k \in DOMAIN l.tasks :
                 /\ l.tasks[k].page = p
                 /\ l.tasks[k].st = "done"
                 /\ l.tasks[k].out.ok
                 /\ ParsePage(l.tasks[k].out.val).ok}
    IN IF ks = {} THEN <<>>
       ELSE ParsePage(l.tasks[CHOOSE k \in ks : TRUE].out.val).val

\* page 1 items ++ page 2 items ++ ... ++ page N items
PagesInOrder(l) == Concat([p \in 1..l.total_pages |-> PageItems(l, p)])

HasFullPath(list, path) == \E k \in DOMAIN list : list[k].full_path = Some(path)
HasNamespace(list, path) ==
    \E k \in DOMAIN list : list[k].path_with_namespace = Some(path)

ProjectRequests == {r \in BagToSet(requests) : r.url.sub = "projects"}

\* the number of requests sent to url
RequestsTo(url) ==
    BagCardinality([r \in {q \in BagToSet(requests) : q.url = url} |-> requests[r]])

\* a step in which the groups listing hands its complete list to resource_from_uri
GroupsListed ==
    /\ rpc = "groups"
    /\ rpc' = "projects" \/ (rpc' = "done" /\ listing'.ret.ok)

\* a step in which the projects listing hands its complete list to resource_from_uri
ProjectsListed == rpc = "projects" /\ rpc' = "done" /\ listing'.ret.ok

Returned == rpc = "done" /\ ret # None
ReturnedOk == Returned /\ ret[1].ok
ReturnedErr(msg) == Returned /\ ~ret[1].ok /\ ret[1].err = msg

\* C1: when the fetched group list holds a group whose full_path is the joined
\* request path, resource_from_uri returns that group, addressed under
\* /api/v4/groups/{id}, and no project listing is requested, then or later.
C1_GroupMatchReturnsGroup ==
    /\ [][(GroupsListed /\ HasFullPath(PagesInOrder(listing), Expected)) =>
            /\ rpc' = "done"
            /\ ret' # None
            /\ ret'[1].ok
            /\ ret'[1].val.meta.full_path = Some(Expected)
            /\ \E k \in DOMAIN PagesInOrder(listing) :
                  PagesInOrder(listing)[k] = ret'[1].val.meta
            /\ ret'[1].val.url = GroupResourceUrl(gapi.domain, ret'[1].val.meta.id)
            /\ ProjectRequests' = {}]_vars
    /\ []((ReturnedOk /\ ret[1].val.url.kind = "groups") => ProjectRequests = {})

\* C1 witness: a two-page group list holding both the requested group and its
\* parent group resolved to the requested group
C1_Witness ==
    /\ ReturnedOk
    /\ ret[1].val.url.kind = "groups"
    /\ Len(uri.tokens) = 2
    /\ listing.total_pages = 2
    /\ HasFullPath(listing.ret.val, Probable)
    /\ HasFullPath(listing.ret.val, Expected)

\* C2: with no group at the requested path and a group at the path minus its last
\* segment, the project list of that group (and of no other) is requested; a
\* project of it whose path_with_namespace is the requested path is returned,
\* addressed under /api/v4/projects/{id}; every returned resource carries the
\* requested path.
C2_ProjectInContainingGroup ==
    /\ [][(/\ GroupsListed
           /\ ~HasFullPath(PagesInOrder(listing), Expected)
           /\ HasFullPath(PagesInOrder(listing), Probable)) =>
            /\ rpc' = "projects"
            /\ containing_group' # None
            /\ containing_group'[1].full_path = Some(Probable)
            /\ \E k \in DOMAIN PagesInOrder(listing) :
                  PagesInOrder(listing)[k] = containing_group'[1]
            /\ listing'.url = ProjectsUrl(gapi.domain, containing_group'[1].id)
            /\ requests' = requests (+) SetToBag({Request(listing'.url, None)})]_vars
    /\ [](\A r \in ProjectRequests :
            /\ containing_group # None
            /\ r.url = ProjectsUrl(gapi.domain, containing_group[1].id))
    /\ [][(ProjectsListed /\ HasNamespace(PagesInOrder(listing), Expected)) =>
            /\ ret' # None
            /\ ret'[1].ok
            /\ ret'[1].val.meta.path_with_namespace = Some(Expected)
            /\ \E k \in DOMAIN PagesInOrder(listing) :
                  PagesInOrder(listing)[k] = ret'[1].val.meta
            /\ ret'[1].val.url = ProjectResourceUrl(gapi.domain, ret'[1].val.meta.id)]_vars
    /\ [](ReturnedOk =>
            IF ret[1].val.url.kind = "groups"
            THEN ret[1].val.meta.full_path = Some(Expected)
            ELSE ret[1].val.meta.path_with_namespace = Some(Expected))

\* C2 witness: the project was found on the second page of the containing
\* group's project list
C2_Witness ==
    /\ ReturnedOk
    /\ ret[1].val.url.kind = "projects"
    /\ listing.url = ProjectsUrl(gapi.domain, containing_group[1].id)
    /\ listing.total_pages = 2
    /\ Len(listing.ret.val) = 2
    /\ listing.ret.val[1] # ret[1].val.meta
    /\ listing.ret.val[2] = ret[1].val.meta

\* C3: with no group at the requested path, resource_from_uri fails with "no
\* containing group found", requesting no project list, when no group is at the
\* path minus its last segment, and with "found no gitlab resource" when the
\* containing group has no project at the requested path; no request is repeated.
C3_ResolutionFailures ==
    /\ [][(/\ GroupsListed
           /\ ~HasFullPath(PagesInOrder(listing), Expected)
           /\ ~HasFullPath(PagesInOrder(listing), Probable)) =>
            /\ rpc' = "done"
            /\ ret' # None
            /\ ~ret'[1].ok
            /\ ret'[1].err = "no containing group found"
            /\ ProjectRequests' = {}]_vars
    /\ [][(ProjectsListed /\ ~HasNamespace(PagesInOrder(listing), Expected)) =>
            /\ ret' # None
            /\ ~ret'[1].ok
            /\ ret'[1].err = "found no gitlab resource"]_vars
    /\ [](ReturnedErr("no containing group found") => ProjectRequests = {})
    /\ []((Returned /\ ~ret[1].ok) =>
            \A r \in BagToSet(requests) : CopiesIn(r, requests) = 1)

\* C3 witness: a single-segment request, whose candidate containing path is
\* empty, failed against a non-empty group list
C3_Witness ==
    /\ ReturnedErr("no containing group found")
    /\ Len(uri.tokens) = 1
    /\ Probable = <<>>
    /\ listing.ret.ok
    /\ listing.ret.val # <<>>

\* C4: the list get_all_pages returns is the items of page 1, then those of page
\* 2, ..., then those of page N, whatever the order the page tasks completed in.
C4_MergeInPageOrder ==
    (listing.pc = "returned" /\ listing.ret.ok) =>
        listing.ret.val = PagesInOrder(listing)

\* C4 witness: page 2 completed before page 1, and the two pages differ
C4_Witness ==
    /\ listing.pc = "returned"
    /\ listing.ret.ok
    /\ listing.total_pages = 2
    /\ listing.reordered
    /\ PageItems(listing, 1) # <<>>
    /\ PageItems(listing, 2) # <<>>
    /\ PageItems(listing, 1) # PageItems(listing, 2)

\* the first response carried an x-total-pages header that parses as u32
HeaderOk(l) == l.resp # None /\ l.resp[1].kind = "pages"

\* a body that is a JSON array of objects that all carry an id
WellFormed(body) ==
    body.json /\ \A k \in DOMAIN body.items : body.items[k].id # None

PageSucceeded(t) == t.st = "done" /\ t.out.ok /\ WellFormed(t.out.val)

RECURSIVE SumLen(_)
SumLen(tasks) ==
    IF tasks = <<>> THEN 0
    ELSE Len(tasks[1].out.val.items) + SumLen(Tail(tasks))

\* C5: get_all_pages returns a list exactly when the first response carried a
\* parseable x-total-pages header and every page was fetched and parsed; the list
\* then holds every item of every page, and in every other case the result is an
\* error that carries no list.
C5_AllOrNothing ==
    listing.pc = "returned" =>
        /\ listing.ret.ok <=>
              (HeaderOk(listing) /\ \A k \in DOMAIN listing.tasks :
                                       PageSucceeded(listing.tasks[k]))
        /\ listing.ret.ok => Len(listing.ret.val) = SumLen(listing.tasks)
        /\ ~listing.ret.ok => listing.ret.val = <<>>

\* C5 witness: page 1 was merged, page 2 failed to parse, and an error (not the
\* items of page 1) was returned
C5_Witness ==
    /\ listing.pc = "returned"
    /\ ~listing.ret.ok
    /\ listing.total_pages = 2
    /\ listing.awaited = {1, 2}
    /\ listing.result # <<>>
    /\ listing.tasks[2].out.ok
    /\ ~WellFormed(listing.tasks[2].out.val)

\* C6 as claimed: a listing of N >= 1 pages that succeeded took N requests.
C6_Original ==
    (listing.pc = "returned" /\ listing.ret.ok /\ listing.total_pages >= 1) =>
        RequestsTo(listing.url) = listing.total_pages

\* C6, amended: a listing of N pages takes one request without a page parameter,
\* which only supplies the page count, and then one request for each page 1..N:
\* no request is sent twice or for another page, and a listing that succeeded
\* sent all N + 1 of them.
C6_RequestsPerListing ==
    /\ \A r \in BagToSet(requests) :
          /\ CopiesIn(r, requests) = 1
          /\ r.url = listing.url =>
                (r.page = None \/ (HeaderOk(listing) /\ r.page[1] \in 1..listing.total_pages))
    /\ (listing.pc = "returned" /\ listing.ret.ok) =>
          /\ CopiesIn(Request(listing.url, None), requests) = 1
          /\ \A p \in 1..listing.total_pages :
                CopiesIn(Request(listing.url, Some(p)), requests) = 1
          /\ RequestsTo(listing.url) = listing.total_pages + 1

\* C6 witness: a two-page listing succeeded
C6_Witness ==
    /\ listing.pc = "returned"
    /\ listing.ret.ok
    /\ listing.total_pages = 2
    /\ RequestsTo(listing.url) = 3

\* the listing returned the error of a page task (fetch or parse)
PageFailed(l) == l.pc = "returned" /\ ~l.ret.ok /\ l.awaited # {}

\* C7 as claimed: when a page fails, every page task has completed before the
\* error is returned.
C7_Original ==
    PageFailed(listing) => \A k \in DOMAIN listing.tasks : listing.tasks[k].st = "done"

\* C7, amended: when a page fails, no page task is cancelled; the tasks before
\* the failing one have been awaited to completion, and the tasks after it are
\* not awaited: they are left running and may still be in flight when the error
\* is returned.
C7_SiblingsDetached ==
    PageFailed(listing) =>
        LET failed == CHOOSE k \in listing.awaited : \A j \in listing.awaited : j <= k
        IN /\ ~PageSucceeded(listing.tasks[failed])
           /\ \A k \in DOMAIN listing.tasks :
                 /\ listing.tasks[k].st \in {"spawned", "sent", "done"}
                 /\ k < failed => (k \in listing.awaited /\ PageSucceeded(listing.tasks[k]))
                 /\ k > failed => k \notin listing.awaited

\* C7 witness: page 1 failed and the error was returned while the request for
\* page 2 was in flight
C7_Witness ==
    /\ PageFailed(listing)
    /\ rpc = "done"
    /\ listing.awaited = {1}
    /\ listing.total_pages = 2
    /\ listing.tasks[2].st = "sent"

----------------------------------------------------------------------------
(* Properties of the caches *)

\* a step in which invocation p constructs the store kept in the file `path`
Constructs(p, path) == rd[p][path] = None /\ rd'[p][path] # None

\* in such a step: fs::read fails
ReadFailsIO(p, path) == files[path] = None \/ rd'[p][path][1].io_fault

\* in such a step: the file is read, and does not decrypt under the passphrase
ReadFailsDecrypt(p, path) ==
    /\ ~ReadFailsIO(p, path)
    /\ ~files[path][1].intact \/ files[path][1].key # passphrase[p]

\* in such a step: the file decrypts, to bytes that are no JSON of the value type
ReadsUndeserializable(p, path) ==
    /\ ~ReadFailsIO(p, path)
    /\ ~ReadFailsDecrypt(p, path)
    /\ LET bytes == files[path][1].plain
       IN IF path = "resources"
          THEN \/ bytes.top # "data"
               \/ \E k \in DOMAIN bytes.entries : bytes.entries[k].value.meta.id = None
          ELSE bytes.top # "tokens"

\* the value the constructor of `path` left in invocation p
StoreOf(p, path) == IF path = "resources" THEN cache[p] ELSE tstore[p]

\* the empty default of the store kept in `path`, bound to that file
EmptyStore(p, path) ==
    IF path = "resources"
    THEN [in_mem |-> EmptyMap, persistent |-> [path |-> path, passwd |-> passphrase[p]]]
    ELSE [file |-> [path |-> path, passwd |-> passphrase[p]], on_disk |-> EmptyMap]

\* C8: Cache::new and TokenStore::new give the empty default, bound to the store,
\* when the read fails with an IO error; when it fails to decrypt (wrong
\* passphrase, damaged ciphertext) the process ends with a non-zero status and
\* no cache is built.
C8_ReadErrorsAtConstruction ==
    [][\A p \in Procs, path \in Paths :
         Constructs(p, path) =>
            /\ ReadFailsIO(p, path) =>
                  /\ StoreOf(p, path)' = Some(EmptyStore(p, path))
                  /\ pc'[p] = "run"
                  /\ status'[p] = None
            /\ ReadFailsDecrypt(p, path) =>
                  /\ StoreOf(p, path)' = None
                  /\ pc'[p] = "exited"
                  /\ status'[p] # None
                  /\ status'[p][1] # 0]_vars

\* C8 witness: the resources file, written by an earlier invocation, was opened
\* with another passphrase and the process ended with status 1
C8_Witness ==
    \E p \in Procs :
       /\ pc[p] = "exited"
       /\ status[p] = Some(1)
       /\ last[p].op = "CachedResources::new"
       /\ cache[p] = None
       /\ files["resources"] # None
       /\ files["resources"][1].intact
       /\ files["resources"][1].key # passphrase[p]
       /\ files["resources"][1].plain.entries # <<>>
       /\ hist.valid
       /\ hist.latest # EmptyMap

\* C9: when the file decrypts to bytes that do not deserialize, Cache::new and
\* TokenStore::new give the empty default without output and without ending the
\* process, and leave the file as it was.
C9_UndeserializableGivesDefault ==
    [][\A p \in Procs, path \in Paths :
         (Constructs(p, path) /\ ReadsUndeserializable(p, path)) =>
            /\ StoreOf(p, path)' = Some(EmptyStore(p, path))
            /\ pc'[p] = "run"
            /\ status'[p] = None
            /\ last'[p].printed = None
            /\ files' = files]_vars

\* C9 witness: the cache was built empty over a resources file of an older format,
\* which is still there
C9_Witness ==
    \E p \in Procs :
       /\ pc[p] = "run"
       /\ last[p].op = "CachedResources::new"
       /\ cache[p] # None
       /\ cache[p][1].in_mem = EmptyMap
       /\ rd[p]["resources"] = Some([io_fault |-> FALSE, present |-> TRUE])
       /\ files["resources"] = Some(Encrypt(passphrase[p], DriftedBytes).val)

\* the cache of p was just constructed, from a file that could be read if there
Fresh(p) ==
    /\ pc[p] = "run"
    /\ cache[p] # None
    /\ last[p].op = "CachedResources::new"
    /\ ~Lossy(p)

\* C10: when every insert so far was persisted, a CachedResources constructed
\* afresh over the file gives, for every identifier inserted, the resource
\* inserted last under it, and lists exactly the identifiers inserted.
C10_RoundTrip ==
    \A p \in Procs :
       (Fresh(p) /\ hist.valid) =>
          /\ \A identifier \in DOMAIN hist.latest :
                Get(cache[p][1], identifier) = Some(hist.latest[identifier])
          /\ List(cache[p][1]) = DOMAIN hist.latest

\* C10 witness: a fresh cache over a file holding two identifiers, one of which
\* was inserted twice with different resources
C10_Witness ==
    \E p \in Procs :
       /\ Fresh(p)
       /\ hist.valid
       /\ hist.overwrote
       /\ Cardinality(DOMAIN hist.latest) = 2
       /\ \E identifier \in DOMAIN hist.latest :
             hist.latest[identifier].variables # <<>>

\* the file holds a whole ciphertext, as one write made it
Complete(path) == files[path] # None => files[path][1].intact

\* C11 as claimed: at every point a cache file is absent or holds a complete
\* snapshot, never a truncated or half-written one.
C11_Original == \A path \in Paths : Complete(path)

\* C12 as claimed: when the write fails, insert returns normally and get gives
\* the inserted resource, add_token returns the error and get gives the new
\* token, and in both cases the file keeps its previous contents.
C12_Original ==
    [][\A p \in Procs :
         /\ \A in \in InsertInputs :
               (/\ Insert(p, in[1], in[2])
                /\ last'[p].printed = Some("failed to cache resource map")) =>
                  /\ pc'[p] = "run"
                  /\ last'[p].ret.ok
                  /\ Get(cache'[p][1], Identifier(in[1])[1]) =
                        Some([meta |-> in[1], variables |-> in[2]])
                  /\ files' = files
         /\ \A domain \in Domains, token \in AuthTokens :
               (AddToken(p, domain, token) /\ ~last'[p].ret.ok) =>
                  /\ pc'[p] = "run"
                  /\ last'[p].ret.err = "IO"
                  /\ GetToken(tstore'[p][1], domain) = Some(token)
                  /\ files' = files]_vars

\* C13: insert keys the entry by full_path when there is one, otherwise by
\* path_with_namespace, and changes no other entry; with neither path it panics
\* and leaves the map in memory and the file as they were.
C13_InsertKey ==
    [][\A p \in Procs, in \in InsertInputs :
         Insert(p, in[1], in[2]) =>
            LET meta == in[1]
                resource == [meta |-> in[1], variables |-> in[2]]
                before == cache[p][1].in_mem
                keyed(k) ==
                    /\ cache'[p] # None
                    /\ DOMAIN cache'[p][1].in_mem = (DOMAIN before) \cup {k}
                    /\ cache'[p][1].in_mem[k] = resource
                    /\ \A x \in (DOMAIN before) \ {k} : cache'[p][1].in_mem[x] = before[x]
            IN /\ meta.full_path # None => keyed(meta.full_path[1])
               /\ (meta.full_path = None /\ meta.path_with_namespace # None) =>
                     keyed(meta.path_with_namespace[1])
               /\ (meta.full_path = None /\ meta.path_with_namespace = None) =>
                     /\ pc'[p] = "exited"
                     /\ status'[p] = Some(101)
                     /\ ~last'[p].ret.ok
                     /\ cache' = cache
                     /\ files' = files]_vars

\* C13 witness: a resource carrying both paths sits under its full_path alone, and
\* a later insert of a resource without a path has panicked, the file still being
\* the one written before
C13_Witness ==
    \E p \in Procs :
       /\ pc[p] = "exited"
       /\ status[p] = Some(101)
       /\ last[p] = [op |-> "insert", ret |-> Err("panic"),
                     printed |-> Some("gitlab resource with no path")]
       /\ DOMAIN cache[p][1].in_mem = {PathA}
       /\ cache[p][1].in_mem[PathA].meta.path_with_namespace = Some(PathAB)
       /\ files["resources"] # None
       /\ files["resources"][1].intact
       /\ hist.valid
       /\ DOMAIN hist.latest = {PathA}

----------------------------------------------------------------------------
(* Properties of the URI resolution *)

\* UriMeta::new has returned
Resolved == stage \in {"resolved", "again"}

\* the text parse_domain and parse_tokens were given: the typed url, or the url
\* of the checkout's origin (None without one)
ParsedText == IF source[1].kind = "Web" THEN Some(source[1].text) ELSE arg.origin

\* the forms of input the resolution is to treat alike
SupportedForms ==
    {"origin scheme://host/path", "origin user@host:path", "host/path", "host:path"}

\* C14 as claimed: a project resolves to the same tokens and the same identifier
\* in every supported form, here compared with its typed form host/path.
C14_Original ==
    (Resolved /\ arg.form \in SupportedForms) =>
        LET typed == from_web(Remote("host/path", arg.host, arg.segs, FALSE))
        IN typed.ok =>
              /\ urimeta[1].ok
              /\ urimeta[1].val.tokens = typed.val.tokens
              /\ urimeta[1].val.identifier = typed.val.identifier

\* C15 as claimed: identifier is the tokens joined by "/", url is domain, "/",
\* identifier, and resolving url again gives the same domain and tokens.
C15_Original ==
    (Resolved /\ urimeta[1].ok) =>
        LET m == urimeta[1].val
        IN /\ m.identifier = Join(m.tokens, Slash)
           /\ m.url = m.domain \o Slash \o m.identifier
           /\ stage = "again" =>
                 /\ reparsed[1].ok
                 /\ reparsed[1].val.domain = m.domain
                 /\ reparsed[1].val.tokens = m.tokens

\* a token without a final ".git"
WithoutDotGit(t) == IF EndsWith(t, DotGit) THEN SubSeq(t, 1, Len(t) - Len(DotGit)) ELSE t

\* C16 as claimed: parse_tokens splits on ":" and "/" dropping empty pieces, gives
\* none for fewer than two pieces, and otherwise the pieces after the first, the
\* last one without a final ".git"; what it gives is non-empty and so is every
\* element of it.
C16_Original ==
    (Resolved /\ ParsedText # None) =>
        LET raw == Runs(ParsedText[1], {":", "/"}, <<>>)
            r == parse_tokens(ParsedText[1])
        IN /\ Len(raw) < 2 => r = None
           /\ Len(raw) >= 2 =>
                 /\ r # None
                 /\ Len(r[1]) = Len(raw) - 1
                 /\ \A k \in 1..(Len(raw) - 2) : r[1][k] = raw[k + 1]
                 /\ r[1][Len(raw) - 1] = WithoutDotGit(raw[Len(raw)])
                 /\ \A k \in DOMAIN r[1] : r[1][k] # <<>>

\* C17 as claimed: for a remote whose host holds "gitlab" and a dotted suffix
\* parse_domain gives exactly the host, in every form of the remote; for another
\* host it gives none.
C17_Original ==
    (Resolved /\ arg.form # "other" /\ ParsedText # None) =>
        parse_domain(ParsedText[1]) =
            IF arg.host \in {HostCom, HostMy} THEN Some(arg.host) ELSE None

\* C18 as claimed: an input the domain pattern matches becomes Source::Web, with
\* a ":" right after the domain turned into "/" and nothing else changed; any
\* other input becomes Source::Disk, a leading "~" replaced by the home directory.
C18_Original ==
    source # None =>
        LET m == DomainMatch(arg.text)
        IN IF m # None
           THEN source[1] = Web(IF arg.text[m[1].end] = ":"
                                THEN [arg.text EXCEPT ![m[1].end] = "/"]
                                ELSE arg.text)
           ELSE /\ source[1].kind = "Disk"
                /\ Head(arg.text) = "~" => source[1].text = HomeDir \o Tail(arg.text)

----------------------------------------------------------------------------
(* Properties of the top-level flow *)

\* the running (or last) invocation asks for an identifier that an earlier
\* invocation with the same passphrase printed and persisted
ServedBefore ==
    /\ mpc # "idle"
    /\ past.served[Join(uri.tokens, Slash)] # None
    /\ \A p \in Sequential :
          past.served[Join(uri.tokens, Slash)][1].passwd = passphrase[p]

\* C19: once an invocation for identifier I has succeeded and persisted, every
\* later invocation with the same passphrase for I is served from the cache: it
\* looks up no token, prompts for none, sends no API request, and when it has
\* ended it has exited with status 0 and printed the resource the first one cached
C19_Original ==
    ServedBefore =>
       /\ ~log.looked_up
       /\ log.prompt = None
       /\ ~log.api
       /\ mpc = "exited" =>
             /\ \A p \in Sequential : status[p] = Some(0)
             /\ log.out = Some(past.served[Join(uri.tokens, Slash)][1].resource)

\* an earlier invocation stored the token typed at the prompt, under the
\* passphrase of the running (or last) one
CollectedBefore ==
    /\ mpc # "idle"
    /\ past.collected # None
    /\ \A p \in Sequential : past.collected[1] = passphrase[p]

\* C20: when the token store has no token for the domain D of the resolved uri,
\* the token typed at the prompt is persisted under D: once add_token has
\* returned, get(D) gives that token and the tokens file holds it under D, and a
\* later invocation with the same passphrase is not prompted again
C20_Original ==
    /\ (log.prompt # None /\ log.prompt[1].stored) =>
          \A p \in Sequential :
             /\ tstore[p] # None =>
                   GetToken(tstore[p][1], uri.domain) = Some(log.prompt[1].token)
             /\ LET file == PasswdProtectedFile(passphrase[p], "tokens")
                    again == TokenStoreNew(file, Read(file, files, FALSE))
                IN /\ again.kind = "value"
                   /\ GetToken(again.value[1], uri.domain) = Some(log.prompt[1].token)
    /\ CollectedBefore => log.prompt = None

\* C21: the resource printed for a request on domain D is a resource of the
\* instance at D: a request for a path on one domain is never answered with the
\* entry cached when the same path was resolved on another domain
C21_Original ==
    (mpc = "exited" /\ log.out # None) =>
       log.out[1] \in Served(uri.domain, uri.tokens)

\* C22: for every resource resource_from_uri(u) returns, the key under which
\* insert stores it is u.identifier, so the get(u.identifier) that follows the
\* insert finds the entry, whatever the listings carried
C22_Original ==
    ReturnedOk =>
       LET meta == ret[1].val.meta
           key == Identifier(meta)
       IN /\ key = Some(Expected)
          /\ Get([in_mem |-> MapInsert(EmptyMap, key[1],
                                       [meta |-> meta, variables |-> <<>>])],
                 Expected) # None

----------------------------------------------------------------------------
(* Properties of two invocations at once *)

\* both invocations have inserted and written their map, each map holding an
\* identifier the other lacks
BothPersisted ==
    /\ \A p \in Procs :
          /\ pc[p] = "run"
          /\ cache[p] # None
          /\ last[p].op = "insert"
          /\ last[p].printed = None
    /\ \A p \in Procs, q \in Procs :
          p # q => List(cache[p][1]) \ List(cache[q][1]) # {}

\* the resources file holds exactly the map of p
HoldsMapOf(p) ==
    LET r == Read(cache[p][1].persistent, files, FALSE)
    IN /\ r.ok
       /\ DeserializeResourceMap(r.val).ok
       /\ DeserializeResourceMap(r.val).val = cache[p][1].in_mem

\* C23: when two invocations have loaded the same file, each has inserted another
\* identifier and each has written its whole map, the file holds exactly the map
\* of the invocation whose write came last, and the insert of the other is lost
C23_Original ==
    [][\A p \in Procs :
          (pc[p] = "writing" /\ pc'[p] = "run" /\ BothPersisted') => HoldsMapOf(p)']_vars

====
